---- MODULE Spec2Model ----
(***************************************************************************)
(* The yt-downloader command line program as a state machine.              *)
(*                                                                         *)
(* The repository holds the program in two yt-dlp based builds:            *)
(*   "staged"  src/unnamed/part_001: every download goes through a temp    *)
(*             directory and is copied to the destination afterwards;      *)
(*   "direct"  src/src/index.js: yt-dlp writes into the destination.       *)
(* A run executes one of them.  The state is the filesystem (temp root,    *)
(* per-download temp directories, destination), the yt-dlp subprocesses    *)
(* with the Node events still to be delivered for each, the promise each   *)
(* download call returned, the metadata fetch with its attempt loop, and   *)
(* the position of the main control flow (handleArgs / mainMenu /          *)
(* downloadVideo / downloadPlaylist).                                      *)
(***************************************************************************)
EXTENDS Integers, Sequences, FiniteSets, TLC

\* ------------------------------------------------------------- bounds
\* download subprocesses spawned in one program run
MaxDownloads == 1
\* entries of a playlist listing
MaxBatch == 2
\* stderr chunks one download subprocess emits
MaxStderr == 1
\* cap of the metadata launch counter (the code never reaches it)
MaxMetaLaunches == 3
\* entries of a playlist listing in the batch runs (BatchSpec)
BatchLen == 3
\* characters typed at the range prompt, and entries of the listing it is
\* applied to (SelectSpec)
MaxInputLen == 4
MaxEntries == 3
\* stderr lines accumulated by one download call (StderrSpec)
MaxErrLines == 3
\* times the cookies file appears or disappears during a run (ArgsSpec)
MaxCookieChanges == 1
\* download calls of a run in ArgsSpec
ArgsCalls == 2
\* lines of a flat listing (ListingSpec)
MaxRecords == 2
\* stdout chunks one download subprocess emits (ProgressSpec)
MaxLines == 3

\* ------------------------------------------------------------- values
Null == "null"

\* yt-dlp item identifiers (info.id / video.id)
Ids == {"v1", "v2"}

\* format option of a download call
Formats == {"audio", "video", "both"}

\* file names, as <<stem, suffix>>
Files == {<<"a", ".mp4">>, <<"b", ".mp4">>, <<"a", ".mp3">>}

\* exit codes of a subprocess that ran; SpawnErrno is what 'close' carries
\* after a failed spawn (Node hands the negative errno on)
ExitCodes == {0, 1}
SpawnErrno == 0 - 2

\* destination directories: downloadDir and the playlist folder below it
DestDirs == {"downloads", "playlist"}

\* let cookiesFile = 'C:\\Users\\synte\\Documents\\youtube_cookies.txt'
CookiePath == "youtube_cookies.txt"

\* stderr chunks of a download subprocess: <<has the ERROR: prefix, text>>
StderrChunks == {<<TRUE, "unavailable">>, <<FALSE, "noise">>}

VARIABLES
    build,      \* which build runs: "staged" (part_001) or "direct" (index.js)
    mode,       \* "cli" (a URL argument) or "menu" (interactive)
    pc,         \* position of the main control flow
    limit,      \* how many download calls the run is followed for
    answer,     \* the answers to the selection prompts, where the run
                \* starts at them (SelectSpec)
    cookies,    \* cookiesFile, whether that file exists, and how often the
                \* run is followed through a change of its existence
    ctx,        \* what the last downloadVideo / downloadPlaylist call came to:
                \* a "single" download, a "batch", or none ("empty", "declined")
    tmpRoot,    \* the temp root directory exists
    tmpDirs,    \* ids whose per-download temp directory exists
    tmpFiles,   \* id -> files in that temp directory
    destExists, \* the destination directories that exist
    destFiles,  \* destination directory -> files in it
    procs,      \* download calls so far, each with its subprocess and promise
    meta,       \* the metadata fetch in progress (getVideoInfo / getPlaylistInfo)
    format,     \* batch: the format option of downloadPlaylist
    selectedVideos, \* batch: the entries selected
    queue,      \* batch: selected entries not yet attempted
    successful, \* batch counter
    failed      \* batch counter

vars == <<build, limit, answer, cookies, mode, pc, ctx, tmpRoot, tmpDirs, tmpFiles,
          destExists, destFiles, procs, meta, format, selectedVideos, queue,
          successful, failed>>

fsVars == <<tmpRoot, tmpDirs, tmpFiles, destExists, destFiles>>
batchVars == <<format, selectedVideos, queue, successful, failed>>

\* ------------------------------------------------------ pure helpers
\* String.prototype.endsWith('.' + ext) on a file name
EndsWith(f, suffix) == f[Len(f)] = suffix

\* const ext = format === 'audio' ? 'mp3' : 'mp4'
ExtFor_AlwaysMp4(fmt) == ".mp4"

ExtFor(fmt) == IF fmt = "audio" THEN ".mp3" ELSE ".mp4"

\* files.filter(f => f.endsWith(`.${ext}`))
TargetFiles_NoFilter(files, ext) == files

TargetFiles(files, ext) == {f \in files : EndsWith(f, ext)}

\* the order readdirSync lists a set of files in (one fixed order per set)
RECURSIVE SetToSeq(_)
SetToSeq(S) ==
    IF S = {} THEN <<>>
    ELSE LET x == CHOOSE y \in S : TRUE IN <<x>> \o SetToSeq(S \ {x})

\* errorOutput.match(/ERROR:\s*(.+)/i): the text after the first ERROR: prefix
RECURSIVE ErrorMatch(_)
ErrorMatch(errorOutput) ==
    IF errorOutput = <<>> THEN Null
    ELSE IF Head(errorOutput)[1] THEN Head(errorOutput)[2]
    ELSE ErrorMatch(Tail(errorOutput))

\* errorMatch ? errorMatch[1].trim() : `Download failed with code ${code}`
ErrorMsg_LastMatch(errorOutput, code) ==
    LET hits == {j \in 1..Len(errorOutput) : errorOutput[j][1]} IN
    IF hits # {}
    THEN [kind |-> "msg",
          text |-> errorOutput[CHOOSE j \in hits : \A i \in hits : i <= j][2],
          code |-> 0]
    ELSE [kind |-> "code", text |-> "", code |-> code]

ErrorMsg(errorOutput, code) ==
    IF ErrorMatch(errorOutput) # Null
    THEN [kind |-> "msg", text |-> ErrorMatch(errorOutput), code |-> 0]
    ELSE [kind |-> "code", text |-> "", code |-> code]

\* the error object Node hands to the 'error' listener after a failed spawn
SpawnError == [kind |-> "spawn", text |-> "", code |-> SpawnErrno]

\* --------------------------------------------------------- promises
Pending == [st |-> "pending", loc |-> "none", err |-> Null]
\* resolve(outputDir) / resolve(targetDir)
ResolvedDest == [st |-> "resolved", loc |-> "dest", err |-> Null]
\* resolve(downloadTempDir)
ResolvedTmp_Rejects == [st |-> "rejected", loc |-> "tmp", err |-> Null]

ResolvedTmp == [st |-> "resolved", loc |-> "tmp", err |-> Null]
Rejected(e) == [st |-> "rejected", loc |-> "none", err |-> e]

\* resolve()/reject() of `new Promise`: only the first call settles it
Settle_Overwrite(promise, outcome) == outcome

Settle(promise, outcome) ==
    IF promise.st = "pending" THEN outcome ELSE promise

\* ------------------------------------------------------- filesystem
\* a removed directory holds no files
Prune(files, dirs) == [i \in Ids |-> IF i \in dirs THEN files[i] ELSE {}]

\* fs.rmSync(downloadTempDir, {recursive, force}) in the 'error' listener
ErrorCleanup_Missing(dirs, id) == dirs

ErrorCleanup(dirs, id) == dirs \ {id}

\* fs.rmSync(downloadTempDir, ...) on a nonzero exit
FailureCleanup(dirs, id) == dirs \ {id}

\* fs.rmSync(downloadTempDir, ...) after the copy loop, outside the
\* `if (targetFiles.length > 0)` block
SuccessCleanup_OnlyIfCopied(dirs, id, targets) ==
    IF targets # {} THEN dirs \ {id} ELSE dirs

SuccessCleanup(dirs, id, targets) == dirs \ {id}

\* the listeners the download call registers on the child process, by event
Listeners_ExitToo(event) ==
    CASE event = "close" -> {"onClose"}
      [] event = "exit" -> {"onClose"}
      [] event = "error" -> {"onError"}
      [] OTHER -> {}

Listeners(event) ==
    CASE event = "close" -> {"onClose"}
      [] event = "error" -> {"onError"}
      [] OTHER -> {}

\* ---------------------------------------------------- argument vectors
\* cookiesFile && fs.existsSync(cookiesFile); index.js passes no cookies
HasCookies(c) == build = "staged" /\ c.file # Null /\ c.exists

\* the hard-coded cookies path, no file there, and no change followed
FixedCookies == [file |-> CookiePath, exists |-> FALSE, changes |-> 0]

\* args.push('--cookies', cookiesFile) under the test above
CookieArgs(c) == IF HasCookies(c) THEN <<"--cookies", c.file>> ELSE <<>>

\* the format selection of downloadVideoWithProgress
FormatArgs(fmt, quality) ==
    CASE fmt = "audio" -> <<"-x", "--audio-format", "mp3", "--audio-quality", "0">>
      [] fmt = "video" -> <<"-f", "bestvideo[ext=mp4]/bestvideo",
                            "--merge-output-format", "mp4">>
      [] OTHER -> <<"-f", IF quality = "highest"
                          THEN "bestvideo[ext=mp4]+bestaudio[ext=m4a]/best[ext=mp4]/best"
                          ELSE "worstvideo[ext=mp4]+worstaudio[ext=m4a]/worst[ext=mp4]/worst",
                    "--merge-output-format", "mp4">>

\* the format selection of downloadVideo / downloadVideoSimple (index.js)
DirectFormatArgs(fmt, quality) ==
    CASE fmt = "audio" -> <<"-x", "--audio-format", "mp3", "--audio-quality", "0">>
      [] fmt = "video" -> <<"-f", "bestvideo[ext=mp4]/bestvideo">>
      [] OTHER -> <<"-f", IF quality = "lowest"
                          THEN "worstvideo[ext=mp4]+worstaudio[ext=m4a]/worst[ext=mp4]/worst"
                          ELSE "bestvideo[ext=mp4]+bestaudio[ext=m4a]/best[ext=mp4]/best">>

\* path.join(tempDir, videoId || Date.now().toString()), as its last
\* component; the clock is read as the number of download calls begun before
DownloadTempDir_Clock(videoId, now) == ToString(now)

DownloadTempDir(videoId, now) ==
    IF videoId # Null THEN videoId ELSE ToString(now)

\* the argument vector of downloadVideoWithProgress (part_001), and of
\* downloadVideo / downloadVideoSimple (index.js: output template in the
\* destination, no cookies)
DownloadArgs(url, fmt, quality, out, videoId, now, c) ==
    IF build = "staged"
    THEN <<"--no-playlist", "-o", DownloadTempDir(videoId, now),
           "--restrict-filenames", "--newline", "--no-warnings", "--progress">>
         \o CookieArgs(c) \o FormatArgs(fmt, quality) \o <<url>>
    ELSE <<"--no-playlist", "-o", out, "--restrict-filenames", "--progress",
           "--newline">>
         \o DirectFormatArgs(fmt, quality) \o <<url>>

\* the arguments of a metadata call before the URL: baseArgs of getVideoInfo,
\* args of getPlaylistInfo
BaseArgs(kind, c) ==
    (IF kind = "video" THEN <<"--dump-json", "--no-playlist">>
     ELSE <<"--flat-playlist", "--dump-json">>) \o CookieArgs(c)

\* one element of the attempts array
AttemptArgs(baseArgs, variant, url) ==
    baseArgs
    \o (IF variant = "player_client=tv"
        THEN <<"--extractor-args", "youtube:player_client=tv">> ELSE <<>>)
    \o <<url>>

\* the elements of a vector
Elems(sq) == {sq[j] : j \in 1..Len(sq)}

\* the cookies file appears or disappears while the program runs
CookieChange ==
    /\ pc \notin {"exited", "killed"}
    /\ cookies.changes > 0
    /\ cookies' = [cookies EXCEPT !.exists = ~@, !.changes = @ - 1]
    /\ UNCHANGED <<build, limit, answer, mode, pc, ctx, fsVars, procs, meta, batchVars>>

\* ------------------------------------------------------ progress bar
\* one chunk of subprocess output as the parser sees it: the words of the
\* phase rules it includes, the number in front of its first % sign
\* (NoPercent: /(\d+\.?\d*)%/ does not match), its first byte-rate token and
\* the token after 'at' ("": no match)
NoPercent == 0 - 1
BlankLine == [words |-> {}, pct |-> NoPercent, rate |-> "", at |-> ""]

\* progressStarted, currentStatus and what the progress bar shows; line is
\* the chunk processed last and fed counts the stdout chunks
InitProgress ==
    [started |-> FALSE, currentStatus |-> "Starting...",
     active |-> FALSE, value |-> 0, speed |-> "", status |-> "",
     line |-> BlankLine, fed |-> 0]

\* 'Detect current phase' of updateProgress
DetectStatus(currentStatus, words) ==
    IF {"Downloading", "video"} \subseteq words THEN "Downloading video..."
    ELSE IF {"Downloading", "audio"} \subseteq words THEN "Downloading audio..."
    ELSE IF "Merging" \in words THEN "Merging files..."
    ELSE IF "Extracting audio" \in words \/ "Converting" \in words
         THEN "Converting to MP3..."
    ELSE IF "Deleting original" \in words THEN "Cleaning up..."
    ELSE currentStatus

\* updateProgress(line) of downloadVideoWithProgress
UpdateProgress_AlwaysDraws(pr, line) ==
    [pr EXCEPT !.currentStatus = DetectStatus(pr.currentStatus, line.words),
               !.status = DetectStatus(pr.currentStatus, line.words),
               !.value = IF line.pct # NoPercent THEN line.pct ELSE @,
               !.line = line]

UpdateProgress(pr, line) ==
    LET status == DetectStatus(pr.currentStatus, line.words) IN
    IF line.pct # NoPercent
    THEN [pr EXCEPT !.currentStatus = status,
                    !.started = TRUE,
                    !.active = TRUE,
                    !.value = line.pct,
                    !.speed = IF line.rate # "" THEN line.rate ELSE "N/A",
                    !.status = status,
                    !.line = line]
    ELSE [pr EXCEPT !.currentStatus = status, !.line = line]

\* the stdout and stderr listeners of downloadVideo / downloadVideoSimple
DirectUpdateProgress(pr, line) ==
    IF line.pct # NoPercent
    THEN [pr EXCEPT !.started = TRUE,
                    !.active = TRUE,
                    !.value = line.pct,
                    !.speed = IF line.at # "" THEN line.at ELSE "N/A",
                    !.line = line]
    ELSE [pr EXCEPT !.line = line]

ParseLine(pr, line) ==
    IF build = "staged" THEN UpdateProgress(pr, line)
    ELSE DirectUpdateProgress(pr, line)

\* if (progressStarted) progressBar.stop()
StopProgress(pr) == IF pr.started THEN [pr EXCEPT !.active = FALSE] ELSE pr

\* the head of the 'close' listener: part_001 sets the bar to 100 and
\* 'Complete!' and stops it, index.js stops it; code is the exit code
CloseProgress_SuccessOnly(pr, code) ==
    IF pr.started /\ code = 0 /\ build = "staged"
    THEN [pr EXCEPT !.value = 100, !.speed = "Done", !.status = "Complete!",
                    !.active = FALSE]
    ELSE StopProgress(pr)

CloseProgress(pr, code) ==
    IF pr.started /\ build = "staged"
    THEN [pr EXCEPT !.value = 100, !.speed = "Done", !.status = "Complete!",
                    !.active = FALSE]
    ELSE StopProgress(pr)

\* a stderr chunk of the runs followed holds no word of a phase rule and no
\* percent sign
StderrLine(chunk) == BlankLine

\* -------------------------------------------------------- processes
Cur == Len(procs)

\* the record of one downloadVideoWithProgress / downloadVideo(Simple) call
NewProc(id, fmt, out, launched, fn) ==
    [id |-> id, format |-> fmt, out |-> out, fn |-> fn,
     args |-> DownloadArgs(id, fmt, "highest", out, id, Len(procs), cookies),
     fileThere |-> HasCookies(cookies),
     progress |-> InitProgress,
     phase |-> IF launched THEN "running" ELSE "failed",
     pend |-> IF launched THEN {} ELSE {"error", "close"},
     code |-> IF launched THEN 0 ELSE SpawnErrno,
     errorOutput |-> <<>>,
     promise |-> Pending,
     listing |-> {},
     promoted |-> {},
     copyRuns |-> 0,
     loops |-> <<>>]

\* listing, promoted and copyRuns record what a call's 'close' listener did,
\* for the properties below; the record of a call whose caller has resumed
\* keeps only what later events still read (a 'close' that follows 'error'
\* carries a nonzero code, so it reads neither the format nor the function)
Delivered(ps) ==
    [k \in 1..Len(ps) |->
        [ps[k] EXCEPT !.listing = {}, !.promoted = {}, !.copyRuns = 0,
                      !.format = Null, !.fn = Null,
                      !.args = <<>>, !.fileThere = FALSE,
                      !.progress = InitProgress]]

\* downloadVideoWithProgress up to and including spawn (part_001), or the
\* argument building and spawn of downloadVideo / downloadVideoSimple
\* (index.js).  `launched` is whether the operating system could start yt-dlp.
Launch(id, fmt, out, launched, fn) ==
    /\ Len(procs) < limit
    /\ procs' = Append(Delivered(procs), NewProc(id, fmt, out, launched, fn))
    /\ IF build = "staged"
       THEN /\ tmpRoot' = TRUE
            /\ tmpDirs' = tmpDirs \cup {id}
            /\ tmpFiles' = tmpFiles
            /\ destExists' = destExists \cup {"downloads", out}
       ELSE /\ UNCHANGED <<tmpRoot, tmpDirs, tmpFiles>>
            /\ destExists' = destExists \cup {"downloads", out}
    /\ destFiles' = destFiles

\* the directory of the -o output template
OutputTemplateDir(p) ==
    IF build = "staged" THEN <<"tmp", p.id>> ELSE <<"dest", p.out>>

\* yt-dlp (or the ffmpeg it runs) writes a file below its output template
ProcWrite(k, f) ==
    /\ pc \notin {"exited", "killed"}
    /\ procs[k].phase = "running"
    /\ LET p == procs[k]
           dir == OutputTemplateDir(p) IN
       IF dir[1] = "tmp"
       THEN /\ f \notin tmpFiles[p.id] \/ p.id \notin tmpDirs
            /\ tmpRoot' = TRUE
            /\ tmpDirs' = tmpDirs \cup {p.id}
            /\ tmpFiles' = [tmpFiles EXCEPT ![p.id] = @ \cup {f}]
            /\ UNCHANGED <<destExists, destFiles>>
       ELSE /\ f \notin destFiles[p.out]
            /\ destExists' = destExists \cup {"downloads", p.out}
            /\ destFiles' = [destFiles EXCEPT ![p.out] = @ \cup {f}]
            /\ UNCHANGED <<tmpRoot, tmpDirs, tmpFiles>>
    /\ UNCHANGED <<build, limit, answer, cookies, mode, pc, ctx, procs, meta, batchVars>>

\* proc.stdout.on('data'): the chunk goes through the progress parser
ProcStdout(k, line) ==
    /\ pc \notin {"exited", "killed"}
    /\ procs[k].phase \in {"running", "exited"}
    /\ procs[k].progress.fed < MaxLines
    /\ procs' = [procs EXCEPT ![k].progress =
                    [ParseLine(@, line) EXCEPT !.fed = @ + 1]]
    /\ UNCHANGED <<build, limit, answer, cookies, mode, pc, ctx, fsVars, meta, batchVars>>

\* proc.stderr.on('data'): errorOutput += line, and the chunk goes through
\* the progress parser.  downloadVideo of index.js keeps no errorOutput; the
\* runs followed leave its stderr out.
ProcStderr(k, chunk) ==
    /\ pc \notin {"exited", "killed"}
    /\ procs[k].phase \in {"running", "exited"}
    /\ procs[k].fn # "downloadVideo"
    /\ Len(procs[k].errorOutput) < MaxStderr
    /\ procs' = [procs EXCEPT ![k].errorOutput = Append(@, chunk),
                              ![k].progress = ParseLine(@, StderrLine(chunk))]
    /\ UNCHANGED <<build, limit, answer, cookies, mode, pc, ctx, fsVars, meta, batchVars>>

\* remove the j-th element of a sequence
Without(seq, j) == SubSeq(seq, 1, j - 1) \o SubSeq(seq, j + 1, Len(seq))

\* the 'close' listener of downloadVideoWithProgress, up to its first await
\* or its end.  p0 is the call's record as the event leaves it.
StagedCloseHandler(k, code, errorOutput, p0) ==
    LET p1 == [p0 EXCEPT !.progress = CloseProgress(@, code)] IN
        IF code = 0
        THEN IF p1.id \notin tmpDirs
             THEN \* readdirSync throws; catch: resolve(downloadTempDir)
                  /\ procs' = [procs EXCEPT ![k] =
                         [p1 EXCEPT !.promise = Settle(@, ResolvedTmp)]]
                  /\ UNCHANGED fsVars
             ELSE LET files == tmpFiles[p1.id]
                      targets == TargetFiles(files, ExtFor(p1.format)) IN
                  IF targets = {}
                  THEN \* nothing to copy: rmSync, resolve(outputDir)
                       /\ tmpDirs' = SuccessCleanup(tmpDirs, p1.id, targets)
                       /\ tmpFiles' = Prune(tmpFiles, tmpDirs')
                       /\ procs' = [procs EXCEPT ![k] =
                              [p1 EXCEPT !.listing = files,
                                         !.promise = Settle(@, ResolvedDest)]]
                       /\ UNCHANGED <<tmpRoot, destExists, destFiles>>
                  ELSE \* enters the copy loop and waits for its first timer
                       /\ procs' = [procs EXCEPT ![k] =
                              [p1 EXCEPT !.listing = files,
                                         !.copyRuns = @ + 1,
                                         !.loops = Append(@, SetToSeq(targets))]]
                       /\ UNCHANGED fsVars
        ELSE \* cleanup on failure, reject(new Error(errorMsg))
             /\ tmpDirs' = FailureCleanup(tmpDirs, p1.id)
             /\ tmpFiles' = Prune(tmpFiles, tmpDirs')
             /\ procs' = [procs EXCEPT ![k] =
                    [p1 EXCEPT !.promise =
                        Settle(@, Rejected(ErrorMsg(errorOutput, code)))]]
             /\ UNCHANGED <<tmpRoot, destExists, destFiles>>

\* the 'close' listener of downloadVideo / downloadVideoSimple (index.js)
DirectCloseHandler(k, code, errorOutput, p0) ==
    /\ procs' = [procs EXCEPT ![k] =
           [p0 EXCEPT !.progress = CloseProgress(@, code),
                      !.promise =
               IF code = 0 THEN Settle(@, ResolvedDest)
               ELSE IF p0.fn = "downloadVideo"
                    THEN Settle(@, Rejected(ErrorMsg(<<>>, code)))
                    ELSE Settle(@, Rejected(ErrorMsg(errorOutput, code)))]]
    /\ UNCHANGED fsVars

CloseHandler(k, code, errorOutput, p0) ==
    IF build = "staged" THEN StagedCloseHandler(k, code, errorOutput, p0)
    ELSE DirectCloseHandler(k, code, errorOutput, p0)

\* the subprocess ends; Node emits 'exit' (nobody listens), stdio may still drain
ProcExit(k, code) ==
    /\ pc \notin {"exited", "killed"}
    /\ procs[k].phase = "running"
    /\ LET p0 == [procs[k] EXCEPT !.phase = "exited", !.code = code,
                                  !.pend = {"close"}] IN
       IF "onClose" \in Listeners("exit")
       THEN CloseHandler(k, code, p0.errorOutput, p0)
       ELSE /\ procs' = [procs EXCEPT ![k] = p0]
            /\ UNCHANGED fsVars
    /\ UNCHANGED <<build, limit, answer, cookies, mode, pc, ctx, meta, batchVars>>

\* Node emits 'close' with the exit code (the negative errno after a failed
\* spawn).  It is the last event of the child: the stdio streams have ended,
\* and nothing reads errorOutput after the listener has.
EmitClose(k) ==
    /\ pc \notin {"exited", "killed"}
    /\ "close" \in procs[k].pend
    /\ LET p0 == [procs[k] EXCEPT !.pend = @ \ {"close"},
                     !.phase = IF @ = "exited" THEN "closed" ELSE @,
                     !.errorOutput = <<>>] IN
       IF "onClose" \in Listeners("close")
       THEN CloseHandler(k, p0.code, procs[k].errorOutput, p0)
       ELSE /\ procs' = [procs EXCEPT ![k] = p0]
            /\ UNCHANGED fsVars
    /\ UNCHANGED <<build, limit, answer, cookies, mode, pc, ctx, meta, batchVars>>

\* Node emits 'error' after a failed spawn: the 'error' listener
EmitError(k) ==
    /\ pc \notin {"exited", "killed"}
    /\ "error" \in procs[k].pend
    /\ LET p0 == [procs[k] EXCEPT !.pend = @ \ {"error"}] IN
       /\ procs' = [procs EXCEPT ![k] =
              [p0 EXCEPT !.progress = StopProgress(@),
                         !.promise = Settle(@, Rejected(SpawnError))]]
       /\ IF build = "staged"
          THEN /\ tmpDirs' = ErrorCleanup(tmpDirs, p0.id)
               /\ tmpFiles' = Prune(tmpFiles, tmpDirs')
          ELSE UNCHANGED <<tmpDirs, tmpFiles>>
    /\ UNCHANGED <<build, limit, answer, cookies, mode, pc, ctx, tmpRoot, destExists, destFiles,
                   meta, batchVars>>

\* one turn of the copy loop of a 'close' listener: the 100 ms timer fired,
\* copyFileSync runs (copied = FALSE: it throws), and after the last file the
\* temp directory is removed and the promise resolved
CopyStep(k, j, copied) ==
    /\ pc \notin {"exited", "killed"}
    /\ j \in 1..Len(procs[k].loops)
    /\ LET p == procs[k]
           todo == p.loops[j]
           f == Head(todo)
           rest == Tail(todo)
           targets == TargetFiles(p.listing, ExtFor(p.format)) IN
       IF ~copied \/ f \notin tmpFiles[p.id]
       THEN \* catch (moveErr): resolve(downloadTempDir)
            /\ procs' = [procs EXCEPT ![k] =
                   [p EXCEPT !.loops = Without(@, j),
                             !.promise = Settle(@, ResolvedTmp)]]
            /\ UNCHANGED fsVars
       ELSE /\ destFiles' = [destFiles EXCEPT ![p.out] = @ \cup {f}]
            /\ IF rest # <<>>
               THEN /\ procs' = [procs EXCEPT ![k] =
                          [p EXCEPT !.loops[j] = rest,
                                    !.promoted = @ \cup {f}]]
                    /\ UNCHANGED <<tmpRoot, tmpDirs, tmpFiles, destExists>>
               ELSE /\ tmpDirs' = SuccessCleanup(tmpDirs, p.id, targets)
                    /\ tmpFiles' = Prune(tmpFiles, tmpDirs')
                    /\ procs' = [procs EXCEPT ![k] =
                          [p EXCEPT !.loops = Without(@, j),
                                    !.promoted = @ \cup {f},
                                    !.promise = Settle(@, ResolvedDest)]]
                    /\ UNCHANGED <<tmpRoot, destExists>>
    /\ UNCHANGED <<build, limit, answer, cookies, mode, pc, ctx, meta, batchVars>>

\* --------------------------------------------------- metadata fetch
\* what one metadata subprocess did: the first event delivered for it
\* ('close', or 'error' after a failed spawn), the exit code, the
\* accumulated stdout (parseable JSON, text that is not JSON, nothing)
\* and the accumulated stderr
MetaOutputs == {"json", "garbage", "empty"}
MetaStderrs == {"", "e1", "e2"}
MetaResults ==
    [ev : {"close"}, code : ExitCodes, out : MetaOutputs, errOut : MetaStderrs]
    \cup [ev : {"error", "close"}, code : {SpawnErrno}, out : {"empty"}, errOut : {""}]
NoResult == [ev |-> "none", code |-> 0, out |-> "empty", errOut |-> ""]

NoError == [kind |-> "none", text |-> "", code |-> 0]

\* the attempts array: getVideoInfo of part_001 has two variants,
\* getPlaylistInfo one; index.js spawns once without a loop
Attempts(kind) ==
    IF build = "staged" /\ kind = "video" THEN <<"base", "player_client=tv">>
    ELSE <<"base">>

\* the promise of one attempt: `code === 0 && output`, JSON.parse, or the
\* 'error' listener
MetaOk(r) == r.ev = "close" /\ r.code = 0 /\ r.out = "json"

MetaError_ErrorAsExit(r) ==
    IF r.code = 0 /\ r.out # "empty"
    THEN [kind |-> "parse", text |-> "", code |-> 0]
    ELSE IF r.errOut # ""
         THEN [kind |-> "stderr", text |-> r.errOut, code |-> 0]
         ELSE [kind |-> "fetch", text |-> "", code |-> 0]

MetaError(r) ==
    IF r.ev = "error" THEN SpawnError
    ELSE IF r.code = 0 /\ r.out # "empty"
         THEN [kind |-> "parse", text |-> "", code |-> 0]
         ELSE IF r.errOut # ""
              THEN [kind |-> "stderr", text |-> r.errOut, code |-> 0]
              ELSE [kind |-> "fetch", text |-> "", code |-> 0]

\* the attempt loop: return on success, `continue` while i < attempts.length - 1,
\* else throw err.  i is the 0-based index of the attempt that just ended.
MetaStep_NoRetry(i, n, ok) == IF ok THEN "done" ELSE "fail"

MetaStep_NoReturn(i, n, ok) ==
    IF i < n - 1 THEN "retry" ELSE IF ok THEN "done" ELSE "fail"

MetaStep(i, n, ok) ==
    IF ok THEN "done" ELSE IF i < n - 1 THEN "retry" ELSE "fail"

\* i++ of the attempt loop
NextIndex_Stuck(i) == i

NextIndex(i) == i + 1

IdleMeta ==
    [kind |-> "none", i |-> 0, baseArgs |-> <<>>, log |-> <<>>,
     status |-> "idle", err |-> NoError, items |-> <<>>,
     records |-> <<>>, title |-> Null, author |-> Null]

\* getVideoInfo / getPlaylistInfo up to the first spawn
RunningMeta(kind) ==
    [IdleMeta EXCEPT
        !.kind = kind,
        !.baseArgs = BaseArgs(kind, cookies),
        !.log = <<[variant |-> Attempts(kind)[1],
                   args |-> AttemptArgs(BaseArgs(kind, cookies),
                                        Attempts(kind)[1], "url"),
                   fileThere |-> HasCookies(cookies),
                   res |-> NoResult]>>,
        !.status = "running"]

StartMeta(kind) == meta' = RunningMeta(kind)

\* sequences over S of length at most n
SeqsUpTo(S, n) == UNION {[1..m -> S] : m \in 0..n}

\* what a successful parse yields: one info.id, or the playlist's entries
ParsedItems(kind) ==
    IF kind = "video" THEN {<<id>> : id \in Ids} ELSE Seq(Ids)

\* ------------------------------------------------- flat listing
\* a metadata subprocess that exits zero with output that parses
ListingOk == [ev |-> "close", code |-> 0, out |-> "json", errOut |-> ""]

\* one line of `yt-dlp --flat-playlist --dump-json` after JSON.parse, with
\* the fields the loop reads; Null stands for a field that is missing
ListingRecords ==
    [type : {"playlist", "url"}, id : Ids \cup {Null}, title : {"T", Null},
     uploader : {"U", Null}, channel : {Null},
     playlist_title : {"PT", Null}, playlist : {Null}]

\* a || b on strings that may be missing
Or(a, b) == IF a # Null THEN a ELSE b

\* the body of the loop with the two tests in the other order
ListingStep_IdFirst(acc, item) ==
    IF item.id # Null
    THEN [acc EXCEPT !.items = Append(@, item.id)]
    ELSE IF item.type = "playlist"
         THEN [acc EXCEPT !.title = Or(item.title, @),
                          !.author = Or(Or(item.uploader, item.channel), @)]
         ELSE acc

\* the body of the loop over items: acc holds playlistTitle, playlistAuthor
\* and videos
ListingStep(acc, item) ==
    IF item.type = "playlist"
    THEN [acc EXCEPT !.title = Or(item.title, @),
                     !.author = Or(Or(item.uploader, item.channel), @)]
    ELSE IF item.id # Null
         THEN [acc EXCEPT !.items = Append(@, item.id)]
         ELSE acc

\* for (const item of items)
RECURSIVE FoldListing(_, _)
FoldListing(records, acc) ==
    IF records = <<>> THEN acc
    ELSE FoldListing(Tail(records), ListingStep(acc, Head(records)))

\* the 'close' listener of getPlaylistInfo from `for (const item of items)`
\* to resolve
ParseListing(records) ==
    LET acc == FoldListing(records,
                  [title |-> "Playlist", author |-> "Unknown", items |-> <<>>]) IN
    IF acc.items # <<>> /\ records # <<>>
    THEN [acc EXCEPT !.title =
             Or(Or(records[1].playlist_title, records[1].playlist), @)]
    ELSE acc

\* the listing subprocess exits zero with output that parses line by line
ListingClose ==
    /\ pc = "info"
    /\ meta.kind = "playlist" /\ meta.status = "running"
    /\ meta.records # <<>>
    /\ LET parsed == ParseListing(meta.records) IN
       meta' = [meta EXCEPT
                  !.log = [@ EXCEPT ![Len(@)].res = ListingOk],
                  !.status = "ok",
                  !.items = parsed.items,
                  !.title = parsed.title,
                  !.author = parsed.author]
    /\ UNCHANGED <<build, limit, answer, cookies, mode, pc, ctx, fsVars, procs, batchVars>>

\* a metadata subprocess ends: its promise settles and the attempt loop
\* returns, retries with the next variant, or throws
MetaFinish(r, items) ==
    /\ pc = "info"
    /\ meta.status = "running"
    /\ items \in ParsedItems(meta.kind)
    /\ LET n == Len(Attempts(meta.kind))
           log1 == [meta.log EXCEPT ![Len(meta.log)].res = r]
           step == MetaStep(meta.i, n, MetaOk(r)) IN
       CASE step = "done" ->
              meta' = [meta EXCEPT !.log = log1, !.status = "ok", !.items = items]
         [] step = "retry" ->
              /\ Len(meta.log) < MaxMetaLaunches
              /\ meta' = [meta EXCEPT
                     !.i = NextIndex(meta.i),
                     !.log = Append(log1,
                         [variant |-> Attempts(meta.kind)[NextIndex(meta.i) + 1],
                          args |-> AttemptArgs(meta.baseArgs,
                                     Attempts(meta.kind)[NextIndex(meta.i) + 1],
                                     "url"),
                          fileThere |-> HasCookies(cookies),
                          res |-> NoResult])]
         [] OTHER ->
              meta' = [meta EXCEPT !.log = log1, !.status = "failed",
                                   !.err = MetaError(r)]
    /\ UNCHANGED <<build, limit, answer, cookies, mode, pc, ctx, fsVars, procs, batchVars>>

\* --------------------------------------------------------- main flow
\* cleanTempDir(): remove the temp root with all it holds, create it again
CleanTemp_Noop == UNCHANGED <<tmpRoot, tmpDirs, tmpFiles>>

CleanTemp ==
    /\ tmpRoot' = TRUE
    /\ tmpDirs' = {}
    /\ tmpFiles' = [i \in Ids |-> {}]

\* cleanTempDir() exists in part_001 only
CleanTempIfStaged ==
    IF build = "staged" THEN CleanTemp ELSE UNCHANGED <<tmpRoot, tmpDirs, tmpFiles>>

\* the function a download call runs
SingleFn == IF build = "staged" THEN "downloadVideoWithProgress" ELSE "downloadVideo"
BatchFn == IF build = "staged" THEN "downloadVideoWithProgress" ELSE "downloadVideoSimple"

\* downloadVideo / downloadPlaylist return to their caller: handleArgs wipes
\* the temp root and ends, mainMenu asks 'Download more?'
ReturnToTop_Throw ==
    /\ pc' = IF mode = "cli" THEN "exited" ELSE "more"
    /\ UNCHANGED fsVars

ReturnToTop ==
    IF mode = "cli"
    THEN /\ pc' = "returned"
         /\ CleanTempIfStaged
         /\ UNCHANGED <<destExists, destFiles>>
    ELSE /\ pc' = "more"
         /\ UNCHANGED fsVars

\* an error reaches the top: handleArgs calls process.exit(1), mainMenu logs it
ThrowToTop ==
    /\ pc' = IF mode = "cli" THEN "exited" ELSE "more"
    /\ UNCHANGED fsVars

\* handleArgs: the URL argument names neither youtube.com nor youtu.be
CliInvalidUrl ==
    /\ pc = "boot" /\ mode = "cli"
    /\ pc' = "exited"
    /\ UNCHANGED <<build, limit, answer, cookies, mode, ctx, fsVars, procs, meta, batchVars>>

\* index.js downloadVideo creates the destination before it fetches the info
DestBeforeInfo(kind) ==
    destExists' = IF build = "direct" /\ kind = "video"
                  THEN destExists \cup {"downloads"} ELSE destExists

\* handleArgs with a valid URL: cleanTempDir, then downloadVideo or
\* downloadPlaylist up to the spawn of the metadata subprocess
CliStart(kind) ==
    /\ pc = "boot" /\ mode = "cli"
    /\ pc' = "info"
    /\ CleanTempIfStaged
    /\ DestBeforeInfo(kind)
    /\ StartMeta(kind)
    /\ UNCHANGED <<build, limit, answer, cookies, mode, ctx, destFiles, procs, batchVars>>

\* mainMenu: yt-dlp --version fails, process.exit(1)
MenuNoYtDlp ==
    /\ pc = "boot" /\ mode = "menu"
    /\ pc' = "exited"
    /\ UNCHANGED <<build, limit, answer, cookies, mode, ctx, fsVars, procs, meta, batchVars>>

\* mainMenu up to its first prompt: 'Clean temp on start'
MenuBoot ==
    /\ pc = "boot" /\ mode = "menu"
    /\ pc' = "menu"
    /\ CleanTempIfStaged
    /\ UNCHANGED <<build, limit, answer, cookies, mode, ctx, destExists, destFiles, procs, meta, batchVars>>

\* choice 'exit': cleanTempDir, process.exit(0)
MenuExit ==
    /\ pc = "menu"
    /\ pc' = "exited"
    /\ CleanTempIfStaged
    /\ UNCHANGED <<build, limit, answer, cookies, mode, ctx, destExists, destFiles, procs, meta, batchVars>>

\* settings, 'Clear temp files', back
SettingsClear_Anytime ==
    /\ pc \in {"menu", "dl"} /\ build = "staged"
    /\ CleanTemp
    /\ UNCHANGED <<build, limit, answer, cookies, mode, pc, ctx, destExists, destFiles, procs, meta, batchVars>>

SettingsClear ==
    /\ pc = "menu" /\ build = "staged"
    /\ CleanTemp
    /\ UNCHANGED <<build, limit, answer, cookies, mode, pc, ctx, destExists, destFiles, procs, meta, batchVars>>

\* choice video / playlist / auto with a URL, format and quality
MenuChoose(kind) ==
    /\ pc = "menu"
    /\ Len(procs) < limit
    /\ pc' = "info"
    /\ DestBeforeInfo(kind)
    /\ StartMeta(kind)
    /\ UNCHANGED <<build, limit, answer, cookies, mode, ctx, tmpRoot, tmpDirs, tmpFiles, destFiles,
                   procs, batchVars>>

\* downloadVideo after `await getVideoInfo(url)`
VideoInfoDone(fmt, launched) ==
    /\ pc = "info" /\ meta.kind = "video" /\ meta.status \in {"ok", "failed"}
    /\ IF meta.status = "ok"
       THEN /\ Launch(meta.items[1], fmt, "downloads", launched, SingleFn)
            /\ pc' = "dl"
            /\ ctx' = "single"
       ELSE /\ ThrowToTop
            /\ UNCHANGED <<ctx, procs>>
    /\ meta' = IdleMeta
    /\ UNCHANGED <<build, limit, answer, cookies, mode, batchVars>>

\* downloadPlaylist after `await getPlaylistInfo(url)`: the listing is shown
\* and the selection prompt opens; a failure is logged and swallowed
PlaylistInfoDone ==
    /\ pc = "info" /\ meta.kind = "playlist" /\ meta.status \in {"ok", "failed"}
    /\ IF meta.status = "ok"
       THEN /\ pc' = "select"
            /\ meta' = meta
            /\ UNCHANGED fsVars
       ELSE /\ ReturnToTop
            /\ meta' = IdleMeta
    /\ UNCHANGED <<build, limit, answer, cookies, mode, ctx, procs, batchVars>>

\* the entries at the positions idx (ascending) of items
RECURSIVE Pick(_, _, _)
Pick(items, idx, from) ==
    IF from > Len(items) THEN <<>>
    ELSE (IF from \in idx THEN <<items[from]>> ELSE <<>>) \o Pick(items, idx, from + 1)

\* ------------------------------------------------ range prompt text
\* Text is a sequence of one-character strings.
Digits == {"0", "1", "2", "3", "4", "5", "6", "7", "8", "9"}

DigitVal(c) ==
    CASE c = "0" -> 0 [] c = "1" -> 1 [] c = "2" -> 2 [] c = "3" -> 3
      [] c = "4" -> 4 [] c = "5" -> 5 [] c = "6" -> 6 [] c = "7" -> 7
      [] c = "8" -> 8 [] c = "9" -> 9

\* a JavaScript number as far as the selection needs it: an integer or NaN
Num(v) == [nan |-> FALSE, val |-> v]
NaN == [nan |-> TRUE, val |-> 0]

\* String.prototype.trim
RECURSIVE TrimStart(_)
TrimStart(s) == IF s # <<>> /\ Head(s) = " " THEN TrimStart(Tail(s)) ELSE s

RECURSIVE TrimEnd(_)
TrimEnd(s) ==
    IF s # <<>> /\ s[Len(s)] = " " THEN TrimEnd(SubSeq(s, 1, Len(s) - 1)) ELSE s

Trim(s) == TrimEnd(TrimStart(s))

\* the value of the longest prefix of decimal digits, continuing from acc
RECURSIVE DigitsValue(_, _)
DigitsValue(s, acc) ==
    IF s # <<>> /\ Head(s) \in Digits
    THEN DigitsValue(Tail(s), 10 * acc + DigitVal(Head(s)))
    ELSE acc

\* parseInt(text) on text without a 0x prefix: optional sign, then the
\* longest prefix of digits; NaN when there is no digit
ParseInt(s) ==
    LET t == TrimStart(s)
        signed == t # <<>> /\ Head(t) \in {"-", "+"}
        u == IF signed THEN Tail(t) ELSE t IN
    IF u = <<>> \/ Head(u) \notin Digits THEN NaN
    ELSE IF signed /\ Head(t) = "-" THEN Num(0 - DigitsValue(u, 0))
    ELSE Num(DigitsValue(u, 0))

\* String.prototype.split(sep) for a one-character separator
RECURSIVE Split(_, _)
Split(s, sep) ==
    IF s = <<>> THEN << <<>> >>
    ELSE LET rest == Split(Tail(s), sep) IN
         IF Head(s) = sep THEN << <<>> >> \o rest
         ELSE << <<Head(s)>> \o Head(rest) >> \o Tail(rest)

\* String.prototype.includes(c)
Includes(s, c) == \E j \in 1..Len(s) : s[j] = c

\* x - 1 on a JavaScript number
Minus1(x) == IF x.nan THEN NaN ELSE Num(x.val - 1)

\* the relative index of Array.prototype.slice: NaN counts as 0, a negative
\* index counts from the end, and the result is clamped to 0..len
SliceIndex(x, len) ==
    IF x.nan THEN 0
    ELSE IF x.val < 0 THEN (IF len + x.val < 0 THEN 0 ELSE len + x.val)
    ELSE IF x.val > len THEN len ELSE x.val

\* Array.prototype.slice(start, end)
Slice(items, start, end) ==
    SubSeq(items, SliceIndex(start, Len(items)) + 1, SliceIndex(end, Len(items)))

\* the text includes('-'): split('-'), parseInt, slice(start - 1, end)
RangeSelect(items, input) ==
    LET parts == Split(input, "-")
        start == ParseInt(Trim(parts[1]))
        end == ParseInt(Trim(parts[2])) IN
    Slice(items, Minus1(start), end)

\* otherwise: split(','), parseInt - 1, items[i], filter(Boolean)
ListSelect(items, input) ==
    LET parts == Split(input, ",")
        indices == [j \in 1..Len(parts) |-> Minus1(ParseInt(Trim(parts[j])))]
        Defined(x) == ~x.nan /\ x.val >= 0 /\ x.val < Len(items)
        kept == SelectSeq(indices, Defined) IN
    [j \in 1..Len(kept) |-> items[kept[j].val + 1]]

\* the 'range' branch of the selection
RangeInputSelect(items, input) ==
    IF Includes(input, "-") THEN RangeSelect(items, input)
    ELSE ListSelect(items, input)

\* an answer to the selection prompts: the option, the boxes ticked
\* (option 'select') and the text typed (option 'range')
Selection(option, picked, input) ==
    [option |-> option, picked |-> picked, input |-> input]

NoAnswer == Selection("cancel", {}, <<>>)

\* the text the range prompt is answered with in the runs followed here
RangeTexts ==
    {<<"1", "-", "2">>, <<"2", ",", "1">>, <<"0", "-", "2">>, <<"9">>}

\* the answers over a listing of at most n entries
SelectionsUpTo(n) ==
    {Selection("cancel", {}, <<>>), Selection("all", {}, <<>>)}
    \cup {Selection("select", picked, <<>>) : picked \in SUBSET (1..n)}
    \cup {Selection("range", {}, input) : input \in RangeTexts}

\* selectedVideos as the branches on selectOption compute it
ChooseVideos(items, sel) ==
    CASE sel.option = "all" -> items
      [] sel.option = "select" -> Pick(items, sel.picked, 1)
      [] sel.option = "range" -> RangeInputSelect(items, sel.input)
      [] OTHER -> <<>>

\* the selection prompts end without a download: cancel, nothing selected,
\* or the confirmation declined
SelectNone(sel, confirmed) ==
    /\ pc = "select"
    /\ sel.option = "select" => sel.picked \subseteq 1..Len(meta.items)
    /\ sel.option = "cancel" \/ ChooseVideos(meta.items, sel) = <<>> \/ ~confirmed
    /\ ReturnToTop
    /\ ctx' = IF sel.option # "cancel" /\ ChooseVideos(meta.items, sel) = <<>>
              THEN "empty" ELSE "declined"
    /\ selectedVideos' = <<>>
    /\ meta' = IdleMeta
    /\ UNCHANGED <<build, limit, answer, cookies, mode, procs, format, queue,
                   successful, failed>>

\* a non-empty selection is confirmed: the playlist folder is created and the
\* loop starts its first download
SelectSome(sel, fmt, launched) ==
    /\ pc = "select"
    /\ sel.option = "select" => sel.picked \subseteq 1..Len(meta.items)
    /\ ChooseVideos(meta.items, sel) # <<>>
    /\ Len(procs) + Len(ChooseVideos(meta.items, sel)) <= limit
    /\ selectedVideos' = ChooseVideos(meta.items, sel)
    /\ Launch(Head(selectedVideos'), fmt, "playlist", launched, BatchFn)
    /\ queue' = Tail(selectedVideos')
    /\ format' = fmt
    /\ successful' = 0
    /\ failed' = 0
    /\ pc' = "dl"
    /\ ctx' = "batch"
    /\ meta' = IdleMeta
    /\ UNCHANGED <<build, limit, answer, cookies, mode>>

\* `await` resumes once the promise of the download call is settled
Settled_Always(p) == TRUE

Settled(p) == p.promise.st # "pending"

\* successful++ / failed++
Tally_Skip(count, hit) == count

Tally(count, hit) == IF hit THEN count + 1 ELSE count

\* the caller of a single download resumes after `await`
AwaitSingle ==
    /\ pc = "dl" /\ ctx = "single"
    /\ Settled(procs[Cur])
    /\ IF procs[Cur].promise.st = "resolved" THEN ReturnToTop ELSE ThrowToTop
    /\ procs' = Delivered(procs)
    /\ UNCHANGED <<build, limit, answer, cookies, mode, ctx, meta, batchVars>>

\* the batch loop resumes after `await`: count, then the next entry or the summary
AwaitBatch(launched) ==
    /\ pc = "dl" /\ ctx = "batch"
    /\ Settled(procs[Cur])
    /\ successful' = Tally(successful, procs[Cur].promise.st = "resolved")
    /\ failed' = Tally(failed, procs[Cur].promise.st # "resolved")
    /\ IF queue # <<>>
       THEN /\ Launch(Head(queue), format, "playlist", launched, BatchFn)
            /\ queue' = Tail(queue)
            /\ pc' = "dl"
       ELSE /\ ReturnToTop
            /\ procs' = Delivered(procs)
            /\ UNCHANGED queue
    /\ UNCHANGED <<build, limit, answer, cookies, mode, ctx, meta, format, selectedVideos>>

\* the program is ended from outside (a signal) wherever it is: nothing of
\* it runs any more
Terminate ==
    /\ pc \notin {"exited", "killed"}
    /\ pc' = "killed"
    /\ UNCHANGED <<build, limit, answer, cookies, mode, ctx, fsVars, procs, meta, batchVars>>

\* 'Download more?': the loop of mainMenu starts over, or cleanTempDir and
\* process.exit(0).  What the last download call left in its locals is gone.
MenuMore(again) ==
    /\ pc = "more"
    /\ IF again
       THEN /\ pc' = "menu"
            /\ UNCHANGED <<tmpRoot, tmpDirs, tmpFiles>>
       ELSE /\ pc' = "exited"
            /\ CleanTempIfStaged
    /\ ctx' = "single"
    /\ format' = "both"
    /\ selectedVideos' = <<>>
    /\ queue' = <<>>
    /\ successful' = 0
    /\ failed' = 0
    /\ UNCHANGED <<build, limit, answer, cookies, mode, destExists, destFiles, procs, meta>>

\* ----------------------------------------------------- specification
\* a leftover of an earlier run may lie in the temp root
Init ==
    /\ build \in {"staged", "direct"}
    /\ limit = MaxDownloads
    /\ answer = NoAnswer
    /\ cookies = FixedCookies
    /\ mode \in {"cli", "menu"}
    /\ pc = "boot"
    /\ ctx = "single"
    /\ tmpRoot \in IF build = "staged" THEN BOOLEAN ELSE {FALSE}
    /\ tmpDirs = IF tmpRoot THEN {"v1"} ELSE {}
    /\ tmpFiles = [i \in Ids |-> IF i \in tmpDirs THEN {<<"a", ".mp4">>} ELSE {}]
    /\ destExists = {}
    /\ destFiles = [d \in DestDirs |-> {}]
    /\ procs = <<>>
    /\ meta = IdleMeta
    /\ format = "both"
    /\ selectedVideos = <<>>
    /\ queue = <<>>
    /\ successful = 0
    /\ failed = 0

Next ==
    \/ CliInvalidUrl
    \/ \E kind \in {"video", "playlist"} : CliStart(kind)
    \/ MenuNoYtDlp
    \/ MenuBoot
    \/ MenuExit
    \/ SettingsClear
    \/ \E kind \in {"video", "playlist"} : MenuChoose(kind)
    \/ \E r \in MetaResults, items \in SeqsUpTo(Ids, MaxBatch) : MetaFinish(r, items)
    \/ \E fmt \in Formats, launched \in BOOLEAN : VideoInfoDone(fmt, launched)
    \/ PlaylistInfoDone
    \/ \E sel \in SelectionsUpTo(MaxBatch), confirmed \in BOOLEAN :
           SelectNone(sel, confirmed)
    \/ \E sel \in SelectionsUpTo(MaxBatch), fmt \in Formats, launched \in BOOLEAN :
           SelectSome(sel, fmt, launched)
    \/ AwaitSingle
    \/ \E launched \in BOOLEAN : AwaitBatch(launched)
    \/ \E again \in BOOLEAN : MenuMore(again)
    \/ \E k \in 1..Len(procs), f \in Files : ProcWrite(k, f)
    \/ \E k \in 1..Len(procs), chunk \in StderrChunks : ProcStderr(k, chunk)
    \/ \E k \in 1..Len(procs), code \in ExitCodes : ProcExit(k, code)
    \/ \E k \in 1..Len(procs) : EmitClose(k)
    \/ \E k \in 1..Len(procs) : EmitError(k)
    \/ \E k \in 1..Len(procs), j \in 1..MaxDownloads, copied \in BOOLEAN : CopyStep(k, j, copied)

Spec == Init /\ [][Next]_vars

\* ------------------------------------------------ batch runs
\* Non-interactive runs on a playlist URL whose listing is fetched at the
\* first attempt, followed through the whole batch; the run may be ended
\* from outside at any point.  yt-dlp writes at most the one file the
\* default format asks for.
BatchInit ==
    /\ build \in {"staged", "direct"}
    /\ limit = BatchLen
    /\ answer = NoAnswer
    /\ cookies = FixedCookies
    /\ mode = "cli"
    /\ pc = "boot"
    /\ ctx = "single"
    /\ tmpRoot = FALSE
    /\ tmpDirs = {}
    /\ tmpFiles = [i \in Ids |-> {}]
    /\ destExists = {}
    /\ destFiles = [d \in DestDirs |-> {}]
    /\ procs = <<>>
    /\ meta = IdleMeta
    /\ format = "both"
    /\ selectedVideos = <<>>
    /\ queue = <<>>
    /\ successful = 0
    /\ failed = 0

BatchNext ==
    \/ CliStart("playlist")
    \/ \E items \in SeqsUpTo(Ids, BatchLen) : MetaFinish(ListingOk, items)
    \/ PlaylistInfoDone
    \/ \E sel \in SelectionsUpTo(BatchLen), confirmed \in BOOLEAN :
           SelectNone(sel, confirmed)
    \/ \E sel \in SelectionsUpTo(BatchLen), launched \in BOOLEAN :
           SelectSome(sel, "both", launched)
    \/ \E launched \in BOOLEAN : AwaitBatch(launched)
    \/ \E k \in 1..Len(procs) : ProcWrite(k, <<"a", ".mp4">>)
    \/ \E k \in 1..Len(procs), code \in ExitCodes : ProcExit(k, code)
    \/ \E k \in 1..Len(procs) : EmitClose(k)
    \/ \E k \in 1..Len(procs) : EmitError(k)
    \/ \E k \in 1..Len(procs), copied \in BOOLEAN : CopyStep(k, 1, copied)
    \/ Terminate

BatchSpec == BatchInit /\ [][BatchNext]_vars

\* ------------------------------------------------ selection runs
\* downloadPlaylist at the selection prompts, followed up to the
\* confirmation prompt: the listing has n entries, named by their positions;
\* the answer is 'all', any set of ticked boxes, or 'range' with any
\* non-empty text over RangeChars (the prompt refuses empty text).
RangeChars == {"0", "1", "2", "3", "-", ",", " ", "a"}

Numbered(n) == [p \in 1..n |-> p]

SelectInit ==
    /\ build \in {"staged", "direct"}
    /\ limit = 0
    /\ cookies = FixedCookies
    /\ \E n \in 0..MaxEntries :
          /\ meta = [IdleMeta EXCEPT !.kind = "playlist", !.status = "ok",
                                     !.items = Numbered(n)]
          /\ answer \in {Selection("all", {}, <<>>)}
                 \cup {Selection("select", picked, <<>>) : picked \in SUBSET (1..n)}
                 \cup {Selection("range", {}, input) :
                          input \in SeqsUpTo(RangeChars, MaxInputLen) \ {<<>>}}
    /\ mode = "cli"
    /\ pc = "select"
    /\ ctx = "single"
    /\ tmpRoot = (build = "staged")
    /\ tmpDirs = {}
    /\ tmpFiles = [i \in Ids |-> {}]
    /\ destExists = {}
    /\ destFiles = [d \in DestDirs |-> {}]
    /\ procs = <<>>
    /\ format = "both"
    /\ selectedVideos = <<>>
    /\ queue = <<>>
    /\ successful = 0
    /\ failed = 0

\* the selection prompts are answered
SelectPrompt ==
    /\ pc = "select"
    /\ pc' = "confirm"
    /\ selectedVideos' = ChooseVideos(meta.items, answer)
    /\ UNCHANGED <<build, limit, answer, cookies, mode, ctx, fsVars, procs, meta,
                   format, queue, successful, failed>>

SelectNext == SelectPrompt

SelectSpec == SelectInit /\ [][SelectNext]_vars

\* ------------------------------------------------ cookies runs
\* non-interactive runs of either kind during which the cookies file may
\* appear or disappear; the subprocesses write no file
ArgsInit ==
    /\ build \in {"staged", "direct"}
    /\ limit = ArgsCalls
    /\ answer = NoAnswer
    /\ \E there \in BOOLEAN :
          cookies = [file |-> CookiePath, exists |-> there,
                     changes |-> MaxCookieChanges]
    /\ mode = "cli"
    /\ pc = "boot"
    /\ ctx = "single"
    /\ tmpRoot = FALSE
    /\ tmpDirs = {}
    /\ tmpFiles = [i \in Ids |-> {}]
    /\ destExists = {}
    /\ destFiles = [d \in DestDirs |-> {}]
    /\ procs = <<>>
    /\ meta = IdleMeta
    /\ format = "both"
    /\ selectedVideos = <<>>
    /\ queue = <<>>
    /\ successful = 0
    /\ failed = 0

ExitOne == [ev |-> "close", code |-> 1, out |-> "empty", errOut |-> "e1"]

ArgsNext ==
    \/ \E kind \in {"video", "playlist"} : CliStart(kind)
    \/ \E r \in {ListingOk, ExitOne}, items \in SeqsUpTo(Ids, ArgsCalls) :
           MetaFinish(r, items)
    \/ \E fmt \in Formats : VideoInfoDone(fmt, TRUE)
    \/ PlaylistInfoDone
    \/ \E sel \in SelectionsUpTo(ArgsCalls), fmt \in Formats :
           SelectSome(sel, fmt, TRUE)
    \/ AwaitSingle
    \/ AwaitBatch(TRUE)
    \/ \E k \in 1..Len(procs), code \in ExitCodes : ProcExit(k, code)
    \/ \E k \in 1..Len(procs) : EmitClose(k)
    \/ CookieChange

ArgsSpec == ArgsInit /\ [][ArgsNext]_vars

\* ------------------------------------------------ listing runs
\* a non-interactive playlist run whose listing subprocess has printed up
\* to MaxRecords lines
ListingInit ==
    /\ build \in {"staged", "direct"}
    /\ limit = 0
    /\ answer = NoAnswer
    /\ cookies = FixedCookies
    /\ mode = "cli"
    /\ pc = "info"
    /\ ctx = "single"
    /\ tmpRoot = (build = "staged")
    /\ tmpDirs = {}
    /\ tmpFiles = [i \in Ids |-> {}]
    /\ destExists = {}
    /\ destFiles = [d \in DestDirs |-> {}]
    /\ procs = <<>>
    /\ \E records \in SeqsUpTo(ListingRecords, MaxRecords) \ {<<>>} :
          meta = [RunningMeta("playlist") EXCEPT !.records = records]
    /\ format = "both"
    /\ selectedVideos = <<>>
    /\ queue = <<>>
    /\ successful = 0
    /\ failed = 0

ListingNext == ListingClose \/ PlaylistInfoDone

ListingSpec == ListingInit /\ [][ListingNext]_vars

\* exit codes of the runs that start at a download in progress
EndCodes == {0, 1, 2}

\* ------------------------------------------------ progress runs
\* a single download whose subprocess is running: it prints up to MaxLines
\* chunks on stdout, ends with any exit code, and is closed
ProgressLines ==
    { BlankLine,
      [words |-> {"Downloading", "video"}, pct |-> NoPercent, rate |-> "", at |-> ""],
      [words |-> {"Downloading", "audio"}, pct |-> NoPercent, rate |-> "", at |-> ""],
      [words |-> {"Merging"}, pct |-> NoPercent, rate |-> "", at |-> ""],
      [words |-> {"Downloading", "video"}, pct |-> 0, rate |-> "1MiB/s", at |-> "1MiB/s"],
      [words |-> {}, pct |-> 10, rate |-> "1MiB/s", at |-> "1MiB/s"],
      [words |-> {}, pct |-> 50, rate |-> "", at |-> ""],
      [words |-> {}, pct |-> 100, rate |-> "2MiB/s", at |-> "2MiB/s"] }

ProgressInit ==
    /\ build \in {"staged", "direct"}
    /\ limit = 1
    /\ answer = NoAnswer
    /\ cookies = FixedCookies
    /\ mode = "cli"
    /\ pc = "dl"
    /\ ctx = "single"
    /\ tmpRoot = (build = "staged")
    /\ tmpDirs = IF build = "staged" THEN {"v1"} ELSE {}
    /\ tmpFiles = [i \in Ids |-> {}]
    /\ destExists = {"downloads"}
    /\ destFiles = [d \in DestDirs |-> {}]
    /\ procs = <<NewProc("v1", "both", "downloads", TRUE, SingleFn)>>
    /\ meta = IdleMeta
    /\ format = "both"
    /\ selectedVideos = <<>>
    /\ queue = <<>>
    /\ successful = 0
    /\ failed = 0

ProgressNext ==
    \/ \E line \in ProgressLines : ProcStdout(1, line)
    \/ \E code \in EndCodes : ProcExit(1, code)
    \/ EmitClose(1)

ProgressSpec == ProgressInit /\ [][ProgressNext]_vars

\* ------------------------------------------------ stderr runs
\* a download call of a batch whose subprocess has ended and whose 'close'
\* event is still to come: the stderr lines accumulated are any sequence of up
\* to MaxErrLines lines, with or without the ERROR: prefix
ErrLines == StderrChunks \cup {<<TRUE, "private">>}

StderrInit ==
    /\ build \in {"staged", "direct"}
    /\ limit = 1
    /\ answer = NoAnswer
    /\ cookies = FixedCookies
    /\ mode = "cli"
    /\ pc = "dl"
    /\ ctx = "batch"
    /\ tmpRoot = (build = "staged")
    /\ tmpDirs = IF build = "staged" THEN {"v1"} ELSE {}
    /\ tmpFiles = [i \in Ids |-> {}]
    /\ destExists = {"downloads", "playlist"}
    /\ destFiles = [d \in DestDirs |-> {}]
    /\ \E errorOutput \in SeqsUpTo(ErrLines, MaxErrLines), code \in EndCodes :
          procs = <<[NewProc("v1", "both", "playlist", TRUE, BatchFn) EXCEPT
                        !.phase = "exited", !.pend = {"close"}, !.code = code,
                        !.errorOutput = errorOutput]>>
    /\ meta = IdleMeta
    /\ format = "both"
    /\ selectedVideos = <<"v1">>
    /\ queue = <<>>
    /\ successful = 0
    /\ failed = 0

StderrNext == EmitClose(1)

StderrSpec == StderrInit /\ [][StderrNext]_vars

\* ------------------------------------------------------- properties
\* the attempts a metadata request has launched, and how many variants it has
Launches == Len(meta.log)
Variants == Len(Attempts(meta.kind))

\* C1: when an attempt's subprocess exits nonzero and a further variant
\* remains, the next variant in order has been launched; when none remains
\* the request has failed, and the error it carries is the one of the last
\* attempt alone (its stderr text, or the generic message when stderr was
\* empty).  A download request has one attempt: a nonzero exit rejects it.
C1_RetryThenLastError ==
    /\ meta.status # "idle" =>
         \A j \in 1..Launches :
            LET r == meta.log[j].res IN
            /\ j <= Variants
            /\ meta.log[j].variant = Attempts(meta.kind)[j]
            /\ (r.ev = "close" /\ r.code # 0) =>
                 IF j < Variants
                 THEN Launches > j
                 ELSE /\ meta.status = "failed"
                      /\ meta.err = IF r.errOut # ""
                                    THEN [kind |-> "stderr", text |-> r.errOut, code |-> 0]
                                    ELSE [kind |-> "fetch", text |-> "", code |-> 0]
    /\ \A k \in 1..Len(procs) :
         (procs[k].phase = "closed" /\ procs[k].code # 0) =>
            /\ procs[k].promise.st = "rejected"
            /\ procs[k].promise.err.kind \in {"msg", "code"}
            /\ procs[k].promise.err.kind = "code" =>
                 procs[k].promise.err.code = procs[k].code

\* getVideoInfo failed after two nonzero exits with different stderr texts
C1_Witness ==
    /\ meta.kind = "video" /\ meta.status = "failed" /\ Launches = 2
    /\ meta.log[1].res.code = 1 /\ meta.log[1].res.errOut = "e1"
    /\ meta.log[2].res.code = 1 /\ meta.log[2].res.errOut = "e2"
    /\ meta.err.text = "e2"

\* C2: a metadata request launches each of its variants at most once, so
\* never more attempts than it has variants; with two variants, a first
\* attempt that exits nonzero and a second that exits zero with non-empty
\* output that parses as JSON, the request succeeds after exactly two launches.
C2_LaunchBudget ==
    meta.status # "idle" =>
      /\ Launches <= Variants
      /\ \A j1, j2 \in 1..Launches :
           meta.log[j1].variant = meta.log[j2].variant => j1 = j2
      /\ (/\ Variants = 2 /\ Launches = 2
          /\ meta.log[1].res.ev = "close" /\ meta.log[1].res.code # 0
          /\ meta.log[2].res.ev = "close" /\ meta.log[2].res.code = 0
          /\ meta.log[2].res.out = "json")
         => meta.status = "ok"

\* the second variant of getVideoInfo succeeded after the first exited nonzero
C2_Witness ==
    /\ Variants = 2 /\ Launches = 2 /\ meta.status = "ok"
    /\ meta.log[1].res.ev = "close" /\ meta.log[1].res.code = 1
    /\ meta.log[2].res.code = 0

\* C2 as the specification states it: any zero exit of the second attempt
\* gives success
C2_AsStated ==
    meta.status # "idle" =>
      /\ Launches <= Variants
      /\ (/\ Variants = 2 /\ Launches = 2
          /\ meta.log[1].res.ev = "close" /\ meta.log[1].res.code # 0
          /\ meta.log[2].res.ev = "close" /\ meta.log[2].res.code = 0)
         => meta.status = "ok"

AtDelivery(k) ==
    /\ build = "staged" /\ pc = "dl" /\ k = Cur
    /\ procs[k].promise.st # "pending"

\* C4: on every failure path of a staged download (nonzero exit, or the
\* 'error' event of a launch that failed) the download's temporary directory
\* is gone when the failure is delivered, and none of its files was copied
\* to the destination.
C4_FailureLeavesNothing ==
    \A k \in 1..Len(procs) :
       (AtDelivery(k) /\ procs[k].promise.st = "rejected") =>
          /\ procs[k].id \notin tmpDirs
          /\ tmpFiles[procs[k].id] = {}
          /\ procs[k].promoted = {}
          /\ procs[k].copyRuns = 0

\* a download whose subprocess wrote stderr and exited nonzero is delivered
C4_Witness ==
    \E k \in 1..Len(procs) :
       /\ AtDelivery(k) /\ procs[k].promise.st = "rejected"
       /\ procs[k].phase = "closed" /\ procs[k].promise.err.kind = "msg"

\* C5: after a zero-exit staged download whose promotion did not throw, the
\* temporary directory is gone when the outcome is delivered, whether or not
\* a file of the expected extension was found; when a promotion step throws,
\* the outcome is the temporary location instead.
C5_SuccessCleansTemp ==
    \A k \in 1..Len(procs) :
       (AtDelivery(k) /\ procs[k].phase = "closed" /\ procs[k].code = 0) =>
          \/ /\ procs[k].promise = ResolvedDest
             /\ procs[k].id \notin tmpDirs
             /\ tmpFiles[procs[k].id] = {}
          \/ procs[k].promise = ResolvedTmp

\* a zero-exit download that left only files of another extension is delivered
C5_Witness ==
    \E k \in 1..Len(procs) :
       /\ AtDelivery(k) /\ procs[k].promise = ResolvedDest
       /\ procs[k].listing # {} /\ procs[k].promoted = {}
       /\ procs[k].id \notin tmpDirs

\* C5 as the specification states it: the temporary directory is gone after
\* every zero-exit download, also when a copy throws
C5_AsStated ==
    \A k \in 1..Len(procs) :
       (AtDelivery(k) /\ procs[k].phase = "closed" /\ procs[k].code = 0) =>
          procs[k].id \notin tmpDirs

\* the files of a listing that carry the extension the format asks for
Expected(k) ==
    {f \in procs[k].listing :
        f[2] = IF procs[k].format = "audio" THEN ".mp3" ELSE ".mp4"}

C7_ArtifactKept ==
    [][\A k \in 1..Len(procs) :
          (build = "staged" /\ procs[k].promise = ResolvedTmp) =>
             \A f \in tmpFiles[procs[k].id] :
                \/ f \in tmpFiles'[procs[k].id]
                \/ f \in destFiles'[procs[k].out]]_vars

\* C8: every download subprocess is given an output template inside a
\* temporary directory of its own, never one inside the destination.
C8_OutputInTemp ==
    \A k \in 1..Len(procs) :
       procs[k].phase = "running" =>
          OutputTemplateDir(procs[k]) = <<"tmp", procs[k].id>>

\* C9: a download call has one outcome.  Once its promise is settled no
\* later event changes it, also when 'error' and 'close' both fire, in
\* either order; a launch that failed never starts a promotion; and a call
\* whose events and copies are all done has its outcome.
C9_OneOutcome ==
    /\ [](\A k \in 1..Len(procs) :
            /\ procs[k].phase = "failed" =>
                 procs[k].copyRuns = 0 /\ procs[k].promoted = {}
            /\ (/\ procs[k].phase \in {"closed", "failed"}
                /\ procs[k].pend = {} /\ procs[k].loops = <<>>)
               => procs[k].promise.st # "pending")
    /\ [][\A k \in 1..Len(procs) :
            procs[k].promise.st # "pending" =>
               procs'[k].promise = procs[k].promise]_vars

\* both 'error' and 'close' of a failed launch were delivered, 'close' first
C9_Witness ==
    \E k \in 1..Len(procs) :
       /\ procs[k].phase = "failed" /\ procs[k].pend = {}
       /\ procs[k].promise.st = "rejected"
       /\ procs[k].promise.err.kind = "code"

\* C10: the copy loop of a download call runs in at most one invocation of
\* its 'close' listener, so its files are promoted at most once.
C10_PromoteOnce ==
    \A k \in 1..Len(procs) :
       /\ procs[k].copyRuns <= 1
       /\ Len(procs[k].loops) <= 1
       /\ procs[k].copyRuns = 0 => procs[k].promoted = {}

\* a call's copy loop ran and promoted two files
C10_Witness ==
    \E k \in 1..Len(procs) :
       /\ procs[k].copyRuns = 1 /\ procs[k].loops = <<>>
       /\ Cardinality(procs[k].promoted) = 2

\* the download calls among the first m whose outcome is a failure
Failures(m) == Cardinality({k \in 1..m : procs[k].promise.st = "rejected"})

\* C11: in a batch over the n selected entries, the entries are attempted
\* one by one in the order of the selection, each once; a failed entry does
\* not keep the later ones from being attempted; the counters always add up
\* to the entries whose outcome has been delivered, failed being the number
\* of failures among them, and when the batch has ended every entry was
\* attempted and successful + failed = n.
C11_BatchCounts ==
    (ctx = "batch" /\ pc \in {"dl", "returned"}) =>
       LET n == Len(selectedVideos)
           attempted == Len(procs)
           done == IF pc = "dl" THEN attempted - 1 ELSE attempted IN
       /\ attempted <= n
       /\ \A k \in 1..attempted : procs[k].id = selectedVideos[k]
       /\ queue = SubSeq(selectedVideos, attempted + 1, n)
       /\ successful + failed = done
       /\ failed = Failures(done)
       /\ pc = "returned" => attempted = n

\* a batch of three ended after only its second entry failed
C11_Witness ==
    /\ ctx = "batch" /\ pc = "returned" /\ Len(selectedVideos) = 3
    /\ procs[1].promise.st = "resolved"
    /\ procs[2].promise.st = "rejected"
    /\ procs[3].promise.st = "resolved"
    /\ successful = 2 /\ failed = 1

\* C12: during a batch at most one download subprocess is in flight, and
\* the download of the next entry is started only when the outcome of the
\* current one is there: its promise settled, its promotion copies over and
\* its temporary directory removed (unless promotion failed and left it).
C12_OneInFlight ==
    /\ [](/\ Cardinality({k \in 1..Len(procs) :
                            procs[k].phase \in {"running", "exited"}}) <= 1
          /\ \A k \in 1..(Len(procs) - 1) :
                /\ procs[k].promise.st # "pending"
                /\ procs[k].phase \in {"closed", "failed"}
                /\ procs[k].loops = <<>>)
    /\ [][(Len(procs) >= 1 /\ Len(procs') > Len(procs)) =>
             /\ procs[Cur].promise.st # "pending"
             /\ procs[Cur].loops = <<>>
             /\ (build = "staged" /\ procs[Cur].promise # ResolvedTmp) =>
                   procs[Cur].id \notin tmpDirs]_vars

\* the second entry of a batch is downloading after the first was promoted
C12_Witness ==
    /\ ctx = "batch" /\ Len(procs) = 2 /\ build = "staged"
    /\ procs[1].promise = ResolvedDest
    /\ procs[2].phase = "running"

\* text made of decimal digits only
IsDigits(t) == t # <<>> /\ \A j \in 1..Len(t) : t[j] \in Digits

\* C13: for a range text 'A-B' over a listing of n entries the selection is
\* the entries at positions A..min(B, n) in order, and it is empty whenever
\* A < 1 or A > n.
C13_RangeSlice ==
    (pc = "confirm" /\ answer.option = "range") =>
       \A j \in 1..Len(answer.input) :
          LET left == SubSeq(answer.input, 1, j - 1)
              right == SubSeq(answer.input, j + 1, Len(answer.input)) IN
          (answer.input[j] = "-" /\ IsDigits(left) /\ IsDigits(right)) =>
             LET A == DigitsValue(left, 0)
                 B == DigitsValue(right, 0)
                 n == Len(meta.items) IN
             selectedVideos =
                IF A < 1 \/ A > n THEN <<>>
                ELSE SubSeq(meta.items, A, IF B > n THEN n ELSE B)

\* a position of a list: digits, or a minus sign and digits
IsPosition(t) == IsDigits(t) \/ (t # <<>> /\ Head(t) = "-" /\ IsDigits(Tail(t)))

\* the positions of a list that lie in 1..n, in the order typed
RECURSIVE InRange(_, _)
InRange(pieces, n) ==
    IF pieces = <<>> THEN <<>>
    ELSE LET t == Head(pieces) IN
         (IF IsDigits(t) /\ DigitsValue(t, 0) \in 1..n
          THEN <<DigitsValue(t, 0)>> ELSE <<>>) \o InRange(Tail(pieces), n)

\* C14: for a comma-separated list of positions over a listing of n entries
\* every position in 1..n contributes its entry, and every other position
\* (0, a negative number, text that is no number) is dropped.
C14_ListPositions ==
    (pc = "confirm" /\ answer.option = "range") =>
       LET pieces == Split(answer.input, ",") IN
       (Len(pieces) >= 2 /\ \A j \in 1..Len(pieces) :
                               IsPosition(pieces[j]) \/ pieces[j] = <<"a">>) =>
          selectedVideos = [j \in 1..Len(InRange(pieces, Len(meta.items))) |->
                              meta.items[InRange(pieces, Len(meta.items))[j]]]

\* C15: whatever the answers at the selection prompts, the selected entries
\* are in the order of the listing: an entry that comes earlier in the listing
\* is downloaded earlier.
C15_OrderKept ==
    pc = "confirm" =>
       \A j1, j2 \in 1..Len(selectedVideos) :
          j1 < j2 => selectedVideos[j1] <= selectedVideos[j2]

\* C16: when the selection comes to no entry, downloadPlaylist returns
\* normally: no download call is made, no destination directory is created,
\* and no error reaches the caller.
C16_EmptySelection ==
    /\ [](ctx = "empty" => (pc \in {"returned", "more"} /\ selectedVideos = <<>>))
    /\ [][(pc = "select" /\ ctx' = "empty") =>
             /\ procs' = procs
             /\ destExists' = destExists
             /\ destFiles' = destFiles]_vars

\* a non-interactive playlist run ended on an empty selection
C16_Witness ==
    /\ ctx = "empty" /\ pc = "returned"
    /\ procs = <<>> /\ "playlist" \notin destExists

\* C17: a metadata subprocess that exits zero with output that does not
\* parse fails the fetch with no further launch.
C17_ParseNotRetried ==
    meta.status # "idle" =>
       \A j \in 1..Launches :
          LET r == meta.log[j].res IN
          (r.ev = "close" /\ r.code = 0 /\ r.out = "garbage") =>
             /\ Launches = j
             /\ meta.status = "failed"
             /\ meta.err.kind = "parse"

C19_KilledLeavesNoTemp ==
    pc = "killed" =>
       \A k \in 1..Len(procs) :
          procs[k].phase = "running" => procs[k].id \notin tmpDirs

\* the temp root exists and holds nothing
Wiped == tmpRoot /\ tmpDirs = {} /\ \A i \in Ids : tmpFiles[i] = {}

\* C20 (part_001): the start of handleArgs and of mainMenu, the 'exit'
\* choice, the answer no to 'Download more?' and the normal end of a
\* non-interactive run each leave the temp root wiped; when the first
\* download call of a run starts, the temp root holds that call's empty
\* directory and nothing else.
C20_TempRootWiped ==
    [][build = "staged" =>
         /\ ( \/ pc = "boot" /\ pc' \in {"info", "menu"}
              \/ pc = "menu" /\ pc' = "exited"
              \/ pc = "more" /\ pc' = "exited"
              \/ pc # "returned" /\ pc' = "returned" ) => Wiped'
         /\ (procs = <<>> /\ procs' # <<>>) =>
               /\ tmpRoot'
               /\ tmpDirs' = {procs'[1].id}
               /\ \A i \in Ids : tmpFiles'[i] = {}]_vars

\* a non-interactive run ended normally after a failed promotion had left
\* the download's temp directory behind, and the temp root is empty
C20_Witness ==
    /\ build = "staged" /\ pc = "returned"
    /\ \E k \in 1..Len(procs) : procs[k].promise = ResolvedTmp
    /\ Wiped

\* the first line of a stderr text that has the ERROR: prefix, 0 if none
FirstError(errorOutput) ==
    IF \E j \in 1..Len(errorOutput) : errorOutput[j][1]
    THEN CHOOSE j \in 1..Len(errorOutput) :
            /\ errorOutput[j][1]
            /\ \A i \in 1..(j - 1) : ~errorOutput[i][1]
    ELSE 0

C27_CountsZeroExits ==
    [][(pc = "dl" /\ ctx = "batch"
           /\ <<successful', failed'>> # <<successful, failed>>) =>
          IF procs[Cur].phase = "closed" /\ procs[Cur].code = 0
          THEN successful' = successful + 1 /\ failed' = failed
          ELSE successful' = successful /\ failed' = failed + 1]_vars

\* a batch of two ended with two successes and nothing in the playlist
\* folder: the copy of the first entry threw, the second wrote no file
C27_Witness ==
    /\ build = "staged" /\ ctx = "batch" /\ pc = "returned"
    /\ Len(procs) = 2 /\ procs[1].id # procs[2].id
    /\ procs[1].promise = ResolvedTmp
    /\ procs[2].promise = ResolvedDest
    /\ destFiles["playlist"] = {}
    /\ successful = 2 /\ failed = 0

\* C28 (part_001): when a download call starts, the temp directory it gives
\* to its subprocess holds no file of an earlier download.
C28_FreshTempDir ==
    [][(build = "staged" /\ Len(procs') > Len(procs)) =>
          tmpFiles'[procs'[Len(procs')].id] = {}]_vars

\* the k-th download call of ps has its subprocess running or ended with
\* 'close' still to come, or its 'close' listener is in the copy loop
InFlight(ps, k) ==
    \/ ps[k].phase \in {"running", "exited"}
    \/ ps[k].loops # <<>>

\* C29 (part_001): while a download is in flight the control flow is inside
\* the awaited download call, at none of the places that call cleanTempDir,
\* and no step of the control flow (a step that is not a listener of a child
\* process, so leaves every process as it is) takes the temp root, the temp
\* directory or a file in it away from a download that is in flight.
C29_NoWipeInFlight ==
    /\ [](\A k \in 1..Len(procs) :
             InFlight(procs, k) => (pc = "dl" /\ k = Cur))
    /\ [][\A k \in 1..Len(procs) :
             ( /\ build = "staged"
               /\ procs' = procs
               /\ InFlight(procs, k) ) =>
                /\ tmpRoot => tmpRoot'
                /\ procs[k].id \in tmpDirs => procs[k].id \in tmpDirs'
                /\ tmpFiles[procs[k].id] \subseteq tmpFiles'[procs[k].id]]_vars

\* back in the menu after a download whose promotion failed, the temp
\* files were cleared from the settings
C29_Witness ==
    /\ build = "staged" /\ mode = "menu" /\ pc = "menu"
    /\ procs # <<>>
    /\ \A k \in 1..Len(procs) : ~InFlight(procs, k)
    /\ procs[1].promise = ResolvedTmp
    /\ Wiped

\* C21: every metadata attempt and every download call is launched with
\* --cookies in its arguments exactly when cookiesFile is set and the file
\* exists at that launch.
C21_CookieCheckedPerAttempt ==
    /\ meta.status # "idle" =>
         \A j \in 1..Launches :
            ("--cookies" \in Elems(meta.log[j].args)) <=> meta.log[j].fileThere
    /\ \A k \in 1..Len(procs) :
         procs[k].args # <<>> =>
            (("--cookies" \in Elems(procs[k].args)) <=> procs[k].fileThere)

\* two download calls ask for the same thing
SameRequest(p, q) == p.id = q.id /\ p.format = q.format /\ p.out = q.out

Fed(k) ==
    /\ Len(procs') = Len(procs)
    /\ procs'[k].progress.fed = procs[k].progress.fed + 1

\* C24: a chunk without a percent token leaves what the bar shows (value,
\* speed, status, started or not) as it was, whatever phase words it holds; a
\* chunk that matches no rule leaves currentStatus as well; no chunk settles
\* the promise or moves the control flow.
C24_NoPercentNoChange ==
    [][\A k \in 1..Len(procs) :
          Fed(k) =>
             LET pr == procs[k].progress
                 nx == procs'[k].progress
                 line == nx.line IN
             /\ line.pct = NoPercent =>
                   /\ nx.value = pr.value /\ nx.speed = pr.speed
                   /\ nx.status = pr.status /\ nx.active = pr.active
                   /\ nx.started = pr.started
             /\ (line.pct = NoPercent /\ line.words = {}) =>
                   nx.currentStatus = pr.currentStatus
             /\ procs'[k].promise = procs[k].promise
             /\ pc' = pc]_vars

\* the bar showed 50 for the video phase, and still does after a chunk
\* that says Merging
C24_Witness ==
    /\ procs # <<>> /\ build = "staged"
    /\ procs[1].progress.line.words = {"Merging"}
    /\ procs[1].progress.currentStatus = "Merging files..."
    /\ procs[1].progress.value = 50
    /\ procs[1].progress.status = "Downloading video..."

\* C25 (part_001): from one chunk to the next the value of the bar does not
\* go down unless currentStatus changes.
C25_PercentMonotonic ==
    [][\A k \in 1..Len(procs) :
          ( /\ build = "staged" /\ Fed(k)
            /\ procs[k].progress.started
            /\ procs'[k].progress.currentStatus = procs[k].progress.currentStatus ) =>
             procs'[k].progress.value >= procs[k].progress.value]_vars

\* C30 (part_001): the bar is started by the first chunk with a percent
\* token and by nothing else; when 'close' comes for a call whose bar was
\* started, the bar is set to 100, 'Done' and 'Complete!' and stopped,
\* whatever the exit code; when the bar was not started, 'close' leaves it
\* not started.
C30_CompleteOnClose ==
    /\ [](\A k \in 1..Len(procs) :
             ~procs[k].progress.started =>
                (~procs[k].progress.active /\ procs[k].progress.value = 0))
    /\ [][\A k \in 1..Len(procs) :
             /\ Fed(k) =>
                  (procs'[k].progress.started <=>
                      (procs[k].progress.started
                          \/ procs'[k].progress.line.pct # NoPercent))
             /\ ( /\ build = "staged"
                  /\ Len(procs') = Len(procs)
                  /\ "close" \in procs[k].pend
                  /\ "close" \notin procs'[k].pend ) =>
                   IF procs[k].progress.started
                   THEN /\ procs'[k].progress.value = 100
                        /\ procs'[k].progress.speed = "Done"
                        /\ procs'[k].progress.status = "Complete!"
                        /\ ~procs'[k].progress.active
                   ELSE procs'[k].progress = procs[k].progress]_vars

\* a download that had shown 10 percent exited 1: the call is rejected and
\* the bar shows 100 and 'Complete!'
C30_Witness ==
    /\ procs # <<>> /\ build = "staged"
    /\ procs[1].phase = "closed" /\ procs[1].code = 1
    /\ procs[1].promise.st = "rejected"
    /\ procs[1].progress.line.pct = 10
    /\ procs[1].progress.value = 100
    /\ procs[1].progress.status = "Complete!"

\* the positions of the item records of a listing: not of type playlist,
\* with an id
ItemPositions(records) ==
    {j \in 1..Len(records) : records[j].type # "playlist" /\ records[j].id # Null}

\* C26: the entries getPlaylistInfo returns are the ids of the item records
\* of the listing, one entry per item record, in the order of the records; a
\* record of type playlist gives no entry, and the author is 'Unknown' or
\* comes from a record of type playlist.
C26_ListingEntries ==
    (pc = "info" /\ meta.kind = "playlist" /\ meta.status = "ok") =>
       LET recs == meta.records
           pos == ItemPositions(recs) IN
       /\ Len(meta.items) = Cardinality(pos)
       /\ \A j \in pos :
             meta.items[Cardinality({i \in pos : i <= j})] = recs[j].id
       /\ \/ meta.author = "Unknown"
          \/ \E j \in 1..Len(recs) :
                recs[j].type = "playlist" /\ recs[j].uploader = meta.author

\* a playlist record that carries an id, then an item record: one entry
C26_Witness ==
    /\ pc = "info" /\ meta.status = "ok" /\ Len(meta.records) = 2
    /\ meta.records[1].type = "playlist" /\ meta.records[1].id = "v1"
    /\ meta.records[2].type = "url" /\ meta.records[2].id = "v2"
    /\ meta.items = <<"v2">>

====
